---- MODULE Spec2Model ----
(***************************************************************************)
(* AdasumAllReduce (CUDA kernel) of onnxruntime training: calls of         *)
(* AdasumAllReduce::ComputeInternal on the ranks of a world.  Each call     *)
(* packs its input tensors into one host buffer, hands the buffer to the   *)
(* Adasum reducer, and scatters the buffer back into its output tensors.   *)
(*                                                                         *)
(* Spec and LiveSpec are the two-rank world of the unit tests, with the    *)
(* environment's faults; GraphSpec adds the graphs build_allreduce_graph   *)
(* makes for each reduction algorithm; WorldSpec and WorldLiveSpec are the *)
(* reducer on worlds of up to MaxWorld ranks; RunsSpec is two concurrent   *)
(* calls on each rank; ShapesSpec feeds tensors of any small size, empty   *)
(* ones included; WideSpec is the offset loop on 64-bit tensor sizes.      *)
(*                                                                         *)
(* Numbers are exact rationals <<numerator, denominator>>; the tests       *)
(* compare floats to 1e-4, which Near states.                              *)
(***************************************************************************)
EXTENDS Integers, Sequences, FiniteSets, TLC

\* ---------------------------------------------------------------- bounds
MaxTensors == 3          \* most tensors rank 0 supplies in one call
MaxWorld == 8            \* most ranks of a world
MaxExchanges == 8        \* most pairwise exchanges of one reduction

\* ------------------------------------------------------ program constants
ElemSize == 4            \* sizeof(float), the element type of the tests
WorldSize == 2           \* the tests run on world ranks 0 and 1

Ranks == 0 .. (WorldSize - 1)

\* ------------------------------------------------------ exact arithmetic
Abs(x) == IF x < 0 THEN -x ELSE x

RECURSIVE GCD(_, _)
GCD(a, b) == IF b = 0 THEN a ELSE GCD(b, a % b)

\* the element of a one-element set; { e(x) : x \in {v} } evaluates v once
Only(S) == CHOOSE e \in S : TRUE

\* the rational n/d in lowest terms with a positive denominator
Rat(n, d) ==
  Only({ LET g == GCD(Abs(x), Abs(y))
             s == IF y < 0 THEN -1 ELSE 1
         IN  <<(s * x) \div g, (s * y) \div g>> : x \in {n}, y \in {d} })

Zero == <<0, 1>>
One == <<1, 1>>
Two == <<2, 1>>
RAdd(p, q) ==
  Only({ Rat(x[1] * y[2] + y[1] * x[2], x[2] * y[2]) : x \in {p}, y \in {q} })
RSub(p, q) ==
  Only({ Rat(x[1] * y[2] - y[1] * x[2], x[2] * y[2]) : x \in {p}, y \in {q} })
RMul(p, q) == Only({ Rat(x[1] * y[1], x[2] * y[2]) : x \in {p}, y \in {q} })
RDiv(p, q) == Only({ Rat(x[1] * y[2], x[2] * y[1]) : x \in {p}, y \in {q} })

\* a float tensor's data as buffer cells
Cells(t) == [j \in 1 .. Len(t) |-> <<t[j], 1>>]

RECURSIVE Dot(_, _)
Dot(a, b) ==
  Only({ IF Len(x) = 0 THEN Zero
         ELSE RAdd(RMul(Head(x), Head(y)), Dot(Tail(x), Tail(y))) :
         x \in {a}, y \in {b} })

RECURSIVE SumSeq(_)
SumSeq(s) == IF Len(s) = 0 THEN 0 ELSE Head(s) + SumSeq(Tail(s))

\* ----------------------------------------------------------------- inputs
\* the gradient tensors of the tests, and their partners on the other rank
Pool == { <<4, 5, 6>>, <<7, 8, 9>>, <<4, 5, 6, 7>> }

Mirror(t) ==
  CASE t = <<4, 5, 6>> -> <<7, 8, 9>>
    [] t = <<7, 8, 9>> -> <<4, 5, 6>>
    [] OTHER -> <<8, 9, 10, 11>>

TensorLists == UNION { [1 .. n -> Pool] : n \in 1 .. MaxTensors }

\* what rank 1 supplies when rank 0 supplies ts
\*   "match"  : the same number of tensors with the same element counts
\*   "extra"  : one tensor more (CPUAdasumAllreduceTestFailTensorCountMismatch)
\*   "resize" : the same number of tensors, the first with one element more
Variants == { "match", "extra", "resize" }

Other(ts, v) ==
  LET m == [k \in 1 .. Len(ts) |-> Mirror(ts[k])]
  IN  CASE v = "match" -> m
        [] v = "extra" -> Append(m, <<4, 5, 6>>)
        [] OTHER -> [m EXCEPT ![1] = Append(m[1], 1)]

\* what the host memory the allocator hands out may hold: any value, the same
\* in every cell of a run
Garbage == { <<0, 1>>, <<1, 1>> }

\* the one environment fault of a run: an allocation, a cudaMemcpy of tensor
\* idx, or the transport fails on rank `rank`; kind "none" is a run without
FaultKinds == { "AllocData", "AllocRecv", "Comm" }
CopyKinds == { "D2H", "H2D" }
NoFault == [rank |-> 0, kind |-> "none", idx |-> 0]
FaultPlans ==
  { NoFault }
    \cup { [rank |-> r, kind |-> k, idx |-> 0] : r \in Ranks, k \in FaultKinds }
    \cup { [rank |-> r, kind |-> k, idx |-> i] :
             r \in Ranks, k \in CopyKinds, i \in 1 .. 2 }

\* --------------------------------------------------- the kernel, pure parts
SizeInBytes(t) == Len(t) * ElemSize
ShapeSize(t) == Len(t)

\* the tensors of the tests have one dimension
TensorShape(t) == <<Len(t)>>

\* lines 23-35: the loop that records offset, size and element count per tensor
EmptyTable ==
  [ tensor_offsets |-> <<>>, tensor_sizes |-> <<>>,
    tensor_element_counts |-> <<>>, total_recv_buffer_len |-> 0,
    size_in_bytes |-> 0 ]

\* mutant: the offset of a tensor is the running total after the tensor
RECURSIVE PackLoopPastEnd(_, _, _)
PackLoopPastEnd(ts, i, st) ==
  IF i > Len(ts) THEN st
  ELSE LET size_in_bytes == SizeInBytes(ts[i])
       IN  PackLoopPastEnd(ts, i + 1,
             [ tensor_offsets |->
                 Append(st.tensor_offsets,
                        st.total_recv_buffer_len + size_in_bytes),
               size_in_bytes |-> size_in_bytes,
               total_recv_buffer_len |-> st.total_recv_buffer_len + size_in_bytes,
               tensor_sizes |-> Append(st.tensor_sizes, size_in_bytes),
               tensor_element_counts |->
                 Append(st.tensor_element_counts, ShapeSize(ts[i])) ])

RECURSIVE PackLoop(_, _, _)
PackLoop(ts, i, st) ==
  IF i > Len(ts) THEN st
  ELSE LET size_in_bytes == SizeInBytes(ts[i])
       IN  PackLoop(ts, i + 1,
             [ tensor_offsets |-> Append(st.tensor_offsets, st.size_in_bytes),
               size_in_bytes |-> size_in_bytes,
               total_recv_buffer_len |-> st.total_recv_buffer_len + size_in_bytes,
               tensor_sizes |-> Append(st.tensor_sizes, size_in_bytes),
               tensor_element_counts |->
                 Append(st.tensor_element_counts, ShapeSize(ts[i])) ])

\* the offset loop on tensors whose cells are listed keeps every number
\* below 2^31, where the (int) of line 34 changes nothing; PackPass is the
\* same loop on 64-bit sizes

\* mutant: the copy ignores the tensor's offset
WriteAtStart(buf, offset, cells) ==
  [j \in 1 .. Len(buf) |-> IF j <= Len(cells) THEN cells[j] ELSE buf[j]]

\* cudaMemcpy into the host buffer at a byte offset (lines 45-46)
WriteAt(buf, offset, cells) ==
  LET start == offset \div ElemSize
  IN  [j \in 1 .. Len(buf) |->
         IF j > start /\ j <= start + Len(cells) THEN cells[j - start] ELSE buf[j]]

\* the bytes cudaMemcpy reads from the host buffer (lines 61-62)
ReadAt(buf, offset, size) ==
  SubSeq(buf, (offset \div ElemSize) + 1, (offset + size) \div ElemSize)

\* ------------------------------------------------ the reducer, pure parts
\* the pairwise Adasum combination of the local vector a and the received b
Weighted(a, b, acoeff, bcoeff) ==
  Only({ [j \in 1 .. Len(x) |-> RAdd(RMul(ca, x[j]), RMul(cb, y[j]))] :
         x \in {a}, y \in {b}, ca \in {acoeff}, cb \in {bcoeff} })

Coeff(dot, normsq) ==
  IF normsq = Zero THEN One ELSE RSub(One, RDiv(dot, RMul(Two, normsq)))

\* 0/0 in floating point
NaN == <<0, 0>>

\* mutant: no fallback, the weights are computed with a zero norm
AdasumCombineNoFallback(a, b) ==
  Only({ IF anormsq = Zero \/ bnormsq = Zero
         THEN [j \in 1 .. Len(a) |-> NaN]
         ELSE Weighted(a, b, Coeff(dot, anormsq), Coeff(dot, bnormsq)) :
         dot \in {Dot(a, b)}, anormsq \in {Dot(a, a)}, bnormsq \in {Dot(b, b)} })

AdasumCombine(a, b) ==
  Only({ IF anormsq = Zero \/ bnormsq = Zero
         THEN Weighted(a, b, One, One)
         ELSE Weighted(a, b, Coeff(dot, anormsq), Coeff(dot, bnormsq)) :
         dot \in {Dot(a, b)}, anormsq \in {Dot(a, a)}, bnormsq \in {Dot(b, b)} })

\* the fused buffer combined tensor by tensor: tensor k is the next
\* tensor_counts[k] elements of the buffer
RECURSIVE FusedCombine(_, _, _, _)
FusedCombine(local, recv, tensor_counts, start) ==
  Only({ IF Len(c) = 0 THEN <<>>
         ELSE AdasumCombine(SubSeq(x, s + 1, s + Head(c)),
                            SubSeq(y, s + 1, s + Head(c)))
                \o FusedCombine(x, y, Tail(c), s + Head(c)) :
         x \in {local}, y \in {recv}, c \in {tensor_counts}, s \in {start} })

\* the partner of a rank at the one exchange level of a two-rank world
Partner(r) == (r + 1) % WorldSize

RECURSIVE Pow2(_)
Pow2(n) == IF n <= 0 THEN 1 ELSE 2 * Pow2(n - 1)

RECURSIVE Log2(_)
Log2(n) == IF n <= 1 THEN 0 ELSE 1 + Log2(n \div 2)

\* the participants the recursive doubling runs over: start_level - 1 of the
\* world's levels are skipped
EffectiveParticipants(world_size, start_level) ==
  world_size \div Pow2(start_level - 1)

\* the exchange levels of one reduction: level l pairs the ranks that differ
\* in bit l - 1, the levels below start_level are skipped, the last level is
\* the world's highest bit
NumLevels(world_size, start_level) ==
  Log2(EffectiveParticipants(world_size, start_level))

LastLevel(world_size) == Log2(world_size)

\* mutant: the upper rank of a pair takes the rank below it as its partner
NeighborBelow(rank, level) ==
  LET d == Pow2(level - 1)
  IN  IF (rank \div d) % 2 = 0 THEN rank + d ELSE rank - 1

\* the partner of a rank at a level: the rank whose bit level - 1 differs
Neighbor(rank, level) ==
  LET d == Pow2(level - 1)
  IN  IF (rank \div d) % 2 = 0 THEN rank + d ELSE rank - d

\* the flat sum collective over a group: every member ends with the
\* element-wise sum of the members' tensors
RECURSIVE SumCells(_, _)
SumCells(ts, j) ==
  IF Len(ts) = 0 THEN 0 ELSE Head(ts)[j] + SumCells(Tail(ts), j)

SumTensors(ts) == [j \in 1 .. Len(Head(ts)) |-> SumCells(ts, j)]

\* ------------------------------------------------------------------ state
\* A call is named by a number: call r runs on rank r % world_size, so that
\* with one call per rank the call of rank r is r.
VARIABLES
  context,  \* the run: world size, node-local group size, algorithm, graph
  feeds,    \* feeds[r]: the tensors fed to the graph of call r
  inputs,   \* inputs[r]: the input tensors of call r's OpKernelContext
  fault,    \* the environment fault of this run
  heap,     \* what unwritten host memory holds in this run
  kernel,   \* kernel[r]: the locals of call r's ComputeInternal
  net,      \* net[k]: the messages in flight to rank k, in sending order
  hist      \* hist[r]: what call r has done so far

vars == <<context, feeds, inputs, fault, heap, kernel, net, hist>>

AdasumReductionTypes == { "None", "CpuReduction", "GpuHierarchical" }

\* the world of the unit tests: two ranks of one node, one call each, the
\* AdasumAllReduce node alone with reduce_algo CpuReduction
TestContext ==
  [ world_size |-> WorldSize, local_size |-> WorldSize, runs |-> 1,
    op |-> "AdasumAllReduce", algo |-> "CpuReduction" ]

Calls == 0 .. (context.world_size * context.runs - 1)
RankOf(r) == r % context.world_size

NotCreated ==
  [created |-> FALSE, shape |-> <<>>, written |-> FALSE, data |-> <<>>]

InitKernel(ts) ==
  [ pc |-> "Pack", i |-> 1, status |-> "Running",
    tensor_offsets |-> <<>>, tensor_sizes |-> <<>>,
    tensor_element_counts |-> <<>>, total_recv_buffer_len |-> 0,
    data_buffer |-> <<>>, recv_buffer |-> <<>>,
    vhdd_start_level |-> 1, level |-> 0,
    data_buffer_ptr |-> "null", recv_buffer_ptr |-> "null",
    data_frees |-> 0, recv_frees |-> 0,
    outputs |-> [k \in 1 .. Len(ts) |-> NotCreated] ]

InitHist ==
  [ staged |-> 0, scattered |-> 0, sent |-> 0, calls |-> 0, levels |-> 0,
    foreign |-> FALSE, reducer |-> "NotCalled", reducerStatus |-> "None",
    dataAllocated |-> FALSE, recvAllocated |-> FALSE,
    allocFailed |-> FALSE, copyFailed |-> FALSE, stageFailed |-> FALSE ]

Init ==
  /\ context = TestContext
  /\ \E ts \in TensorLists, v \in Variants :
       feeds = [r \in Ranks |-> IF r = 0 THEN ts ELSE Other(ts, v)]
  /\ inputs = feeds
  /\ fault \in FaultPlans
  /\ heap \in Garbage
  /\ kernel = [r \in Ranks |-> InitKernel(inputs[r])]
  /\ net = [r \in Ranks |-> <<>>]
  /\ hist = [r \in Ranks |-> InitHist]

num_tensors(r) == Len(inputs[r])
Hits(r, kind) == fault.rank = r /\ fault.kind = kind

\* BufferDeleter at the end of the scope of a BufferUniquePtr: the buffer the
\* pointer owns goes back to the allocator
Deleted(ptr) == IF ptr = "owned" THEN 1 ELSE 0

\* mutant: the buffers are raw pointers that nothing frees
ReturnLeak(k, st) == [k EXCEPT !.pc = "Done", !.status = st]

\* the call leaves ComputeInternal with a status: the locals go out of
\* scope, recv_buffer_ptr and data_buffer_ptr (lines 41, 50) among them
Return(k, st) ==
  [k EXCEPT !.pc = "Done", !.status = st,
            !.recv_frees = @ + Deleted(k.recv_buffer_ptr),
            !.data_frees = @ + Deleted(k.data_buffer_ptr)]

\* ------------------------------------------------- the kernel, step by step
\* mutant: the start level is the node-local group size for every algorithm
StartLevelLocalSize(algo, local_size) == local_size

\* lines 13-16: the start level is 1 unless the algorithm is GpuHierarchical
StartLevel(algo, local_size) ==
  IF algo = "GpuHierarchical" THEN local_size ELSE 1

\* lines 13-35
Pack(r) ==
  /\ kernel[r].pc = "Pack"
  /\ LET st == PackLoop(inputs[r], 1, EmptyTable)
     IN  kernel' = [kernel EXCEPT ![r] =
           [@ EXCEPT !.pc = "AllocData",
                     !.vhdd_start_level =
                       StartLevel(context.algo, context.local_size),
                     !.tensor_offsets = st.tensor_offsets,
                     !.tensor_sizes = st.tensor_sizes,
                     !.tensor_element_counts = st.tensor_element_counts,
                     !.total_recv_buffer_len = st.total_recv_buffer_len]]
  /\ UNCHANGED <<context, feeds, inputs, fault, heap, net, hist>>

\* allocator->Alloc: a buffer of len bytes holding anything, or the failure
\* of the allocator, which ends the call
Alloc(k, field, ptr, len, failed, next) ==
  IF failed THEN Return(k, "AllocationError")
  ELSE [k EXCEPT !.pc = next, !.i = 1, ![ptr] = "owned",
                 ![field] = [j \in 1 .. (len \div ElemSize) |-> heap]]

\* lines 37-41
AllocData(r) ==
  /\ kernel[r].pc = "AllocData"
  /\ kernel' = [kernel EXCEPT ![r] =
       Alloc(@, "data_buffer", "data_buffer_ptr", @.total_recv_buffer_len,
             Hits(r, "AllocData"), "Stage")]
  /\ hist' = [hist EXCEPT ![r].allocFailed = Hits(r, "AllocData"),
                          ![r].dataAllocated = ~Hits(r, "AllocData")]
  /\ UNCHANGED <<context, feeds, inputs, fault, heap, net>>

\* mutant: the receive buffer is never allocated
AfterStageNoRecv(k, n) ==
  IF k.i < n THEN [k EXCEPT !.i = k.i + 1] ELSE [k EXCEPT !.pc = "Dispatch"]

\* mutant: the staging loop stops one tensor early
AfterStageEarly(k, n) ==
  IF k.i < n - 1 THEN [k EXCEPT !.i = k.i + 1] ELSE [k EXCEPT !.pc = "AllocRecv"]

\* where the call goes after the staging copy of tensor i (lines 43, 47-49)
AfterStage(k, n) ==
  IF k.i < n THEN [k EXCEPT !.i = k.i + 1] ELSE [k EXCEPT !.pc = "AllocRecv"]

\* lines 43-47, one pass of the loop: CUDA_CALL's value is not looked at
StageCopy(r) ==
  /\ kernel[r].pc = "Stage"
  /\ LET k == kernel[r]
         failed == Hits(r, "D2H") /\ fault.idx = k.i
         copied == IF failed THEN k.data_buffer
                   ELSE WriteAt(k.data_buffer, k.tensor_offsets[k.i],
                                Cells(inputs[r][k.i]))
     IN  /\ kernel' = [kernel EXCEPT ![r] =
              AfterStage([k EXCEPT !.data_buffer = copied], num_tensors(r))]
         /\ hist' = [hist EXCEPT ![r].staged = @ + 1,
                                 ![r].copyFailed = @ \/ failed,
                                 ![r].stageFailed = @ \/ failed]
  /\ UNCHANGED <<context, feeds, inputs, fault, heap, net>>

\* lines 49-50
AllocRecv(r) ==
  /\ kernel[r].pc = "AllocRecv"
  /\ kernel' = [kernel EXCEPT ![r] =
       Alloc(@, "recv_buffer", "recv_buffer_ptr", @.total_recv_buffer_len,
             Hits(r, "AllocRecv"), "Dispatch")]
  /\ hist' = [hist EXCEPT ![r].allocFailed = Hits(r, "AllocRecv"),
                          ![r].recvAllocated = ~Hits(r, "AllocRecv")]
  /\ UNCHANGED <<context, feeds, inputs, fault, heap, net>>

\* mutant: the reducer's status is dropped
AfterDispatchIgnoreError(k, st) == [k EXCEPT !.pc = "Scatter", !.i = 1]

\* mutant: a communication failure makes the kernel call the reducer again
AfterDispatchRetry(k, st) ==
  IF st = "CommunicationFailure" THEN [k EXCEPT !.pc = "Dispatch"]
  ELSE IF st # "OK" THEN Return(k, st)
  ELSE [k EXCEPT !.pc = "Scatter", !.i = 1]

\* line 52, ORT_RETURN_IF_ERROR: an error of the reducer ends the call with
\* that error, success goes on to the scatter loop
AfterDispatch(k, st) ==
  IF st # "OK" THEN Return(k, st) ELSE [k EXCEPT !.pc = "Scatter", !.i = 1]

\* ------------------------------------- the reducer (DispatchFusedAllreduce)
\* a message of call `from` on the communicator and with the tag the kernel
\* hands to the reducer (lines 54-55); level is the sender's exchange level
Msg(kind, from, level, counts, data) ==
  [ kind |-> kind, from |-> from, comm |-> "GlobalParallel", tag |-> 0,
    level |-> level, counts |-> counts, data |-> data ]

\* receive(src, tag) on the communicator: the place in q of the first message
\* that rank src sent with this communicator and tag, 0 when there is none
RECURSIVE FirstFrom(_, _, _)
FirstFrom(q, src, i) ==
  IF i > Len(q) THEN 0
  ELSE IF /\ RankOf(q[i].from) = src
          /\ q[i].comm = "GlobalParallel"
          /\ q[i].tag = 0
       THEN i
       ELSE FirstFrom(q, src, i + 1)

Without(q, i) == SubSeq(q, 1, i - 1) \o SubSeq(q, i + 1, Len(q))

\* the receive call r has posted: from its partner of the current level
Source(r) == Neighbor(RankOf(r), kernel[r].level)
Arrived(r) == FirstFrom(net[RankOf(r)], Source(r), 1) # 0
Received(r) == net[RankOf(r)][FirstFrom(net[RankOf(r)], Source(r), 1)]
Consume(r) ==
  [net EXCEPT ![RankOf(r)] = Without(@, FirstFrom(@, Source(r), 1))]

\* the message was sent by another of the sender's calls than the one that
\* runs with call r
Foreign(r, m) == (m.from \div context.world_size) # (r \div context.world_size)

\* what the handshake answers when the partner's counts are theirs
CompareCounts(mine, theirs) ==
  IF Len(mine) # Len(theirs) THEN "TensorCountMismatch"
  ELSE IF mine # theirs THEN "ElementCountMismatch"
  ELSE "OK"

\* lines 52-57: the kernel calls the reducer with its start level.  With no
\* level to run the reducer returns at once; otherwise it opens the exchange
\* by sending its per-tensor element counts to the partner of the first level
Dispatch(r) ==
  /\ kernel[r].pc = "Dispatch"
  /\ LET k == kernel[r]
     IN  IF NumLevels(context.world_size, k.vhdd_start_level) = 0
         THEN /\ kernel' = [kernel EXCEPT ![r] = AfterDispatch(k, "OK")]
              /\ net' = net
              /\ hist' = [hist EXCEPT ![r].reducer = "OK",
                                      ![r].reducerStatus = "OK",
                                      ![r].calls = @ + 1]
         ELSE /\ kernel' = [kernel EXCEPT ![r].pc = "AwaitCounts",
                                          ![r].level = k.vhdd_start_level]
              /\ net' = [net EXCEPT
                   ![Neighbor(RankOf(r), k.vhdd_start_level)] =
                     Append(@, Msg("counts", r, k.vhdd_start_level,
                                   k.tensor_element_counts, <<>>))]
              /\ hist' = [hist EXCEPT ![r].reducer = "Running",
                                      ![r].sent = @ + 1,
                                      ![r].calls = @ + 1]
  /\ UNCHANGED <<context, feeds, inputs, fault, heap>>

\* the handshake's receive: blocks until the partner's message arrives; a
\* message that is not a list of counts fails the receive
ReducerRecvCounts(r) ==
  /\ kernel[r].pc = "AwaitCounts"
  /\ Arrived(r)
  /\ LET k == kernel[r]
         m == Received(r)
         st == IF m.kind # "counts" THEN "CommunicationFailure"
               ELSE CompareCounts(k.tensor_element_counts, m.counts)
     IN  /\ kernel' = [kernel EXCEPT ![r] =
              IF st = "OK" THEN [k EXCEPT !.pc = "SendData"]
              ELSE AfterDispatch(k, st)]
         /\ hist' = [hist EXCEPT
              ![r].reducer = IF st = "OK" THEN @ ELSE "Error",
              ![r].reducerStatus = IF st = "OK" THEN @ ELSE st,
              ![r].foreign = @ \/ Foreign(r, m)]
  /\ net' = Consume(r)
  /\ UNCHANGED <<context, feeds, inputs, fault, heap>>

\* the send of an exchange level: the local partial result goes to the
\* partner of the level
ReducerSendData(r) ==
  /\ kernel[r].pc = "SendData"
  /\ IF Hits(r, "Comm")
     THEN /\ kernel' = [kernel EXCEPT ![r] =
               AfterDispatch(@, "CommunicationFailure")]
          /\ hist' = [hist EXCEPT ![r].reducer = "Error",
                                  ![r].reducerStatus = "CommunicationFailure"]
          /\ net' = net
     ELSE /\ kernel' = [kernel EXCEPT ![r].pc = "AwaitData"]
          /\ hist' = [hist EXCEPT ![r].sent = @ + 1]
          /\ net' = [net EXCEPT ![Source(r)] =
               Append(@, Msg("data", r, kernel[r].level, <<>>,
                             kernel[r].data_buffer))]
  /\ UNCHANGED <<context, feeds, inputs, fault, heap>>

\* after the combination of a level: the next level, or the reducer returns
\* when the world's last level is done
AfterLevel(k, world_size) ==
  IF k.level < LastLevel(world_size)
  THEN [k EXCEPT !.pc = "SendData", !.level = k.level + 1]
  ELSE AfterDispatch(k, "OK")

\* the receive of an exchange level, then the combination in place; a
\* message that is not a buffer of the local buffer's length fails the receive
ReducerRecvData(r) ==
  /\ kernel[r].pc = "AwaitData"
  /\ Arrived(r)
  /\ LET k == kernel[r]
         m == Received(r)
         fits == m.kind = "data" /\ Len(m.data) = Len(k.data_buffer)
         last == k.level >= LastLevel(context.world_size)
     IN  /\ kernel' = [kernel EXCEPT ![r] =
              IF ~fits THEN AfterDispatch(k, "CommunicationFailure")
              ELSE Only({ AfterLevel([k EXCEPT !.recv_buffer = m.data,
                                               !.data_buffer = combined],
                                     context.world_size) :
                          combined \in
                            { FusedCombine(k.data_buffer, m.data,
                                           k.tensor_element_counts, 0) } })]
         /\ hist' = [hist EXCEPT
              ![r].reducer =
                IF ~fits THEN "Error" ELSE IF last THEN "OK" ELSE @,
              ![r].reducerStatus =
                IF ~fits THEN "CommunicationFailure"
                ELSE IF last THEN "OK" ELSE @,
              ![r].levels = IF fits THEN @ + 1 ELSE @,
              ![r].foreign = @ \/ Foreign(r, m)]
  /\ net' = Consume(r)
  /\ UNCHANGED <<context, feeds, inputs, fault, heap>>

\* ------------------------------------------------------ the kernel, scatter
\* mutant: the scatter reads the receive buffer
ScatterSourceRecv(k) == k.recv_buffer

\* the host buffer the scatter copies read (line 61)
ScatterSource(k) == k.data_buffer

\* where the call goes after the scatter copy of tensor i (lines 59, 63-64)
AfterScatter(k, n) ==
  IF k.i < n THEN [k EXCEPT !.i = k.i + 1] ELSE Return(k, "OK")

\* mutant: every output is given the shape of the first input
OutputShapeFirst(ts, i) == TensorShape(ts[1])

\* the shape output i is created with (line 60)
OutputShape(ts, i) == TensorShape(ts[i])

\* lines 59-64, one pass of the loop: the output is created with the input's
\* shape and the copy's failure, as in the staging loop, is not looked at
ScatterCopy(r) ==
  /\ kernel[r].pc = "Scatter"
  /\ LET k == kernel[r]
         failed == Hits(r, "H2D") /\ fault.idx = k.i
         shape == OutputShape(inputs[r], k.i)
         y_tensor ==
           IF failed
           THEN [created |-> TRUE, shape |-> shape, written |-> FALSE,
                 data |-> <<>>]
           ELSE [created |-> TRUE, shape |-> shape, written |-> TRUE,
                 data |-> ReadAt(ScatterSource(k), k.tensor_offsets[k.i],
                                 k.tensor_sizes[k.i])]
     IN  /\ kernel' = [kernel EXCEPT ![r] =
              AfterScatter([k EXCEPT !.outputs[k.i] = y_tensor], num_tensors(r))]
         /\ hist' = [hist EXCEPT ![r].scattered = @ + 1,
                                 ![r].copyFailed = @ \/ failed]
  /\ UNCHANGED <<context, feeds, inputs, fault, heap, net>>

Step(r) ==
  \/ Pack(r)
  \/ AllocData(r)
  \/ StageCopy(r)
  \/ AllocRecv(r)
  \/ Dispatch(r)
  \/ ReducerRecvCounts(r)
  \/ ReducerSendData(r)
  \/ ReducerRecvData(r)
  \/ ScatterCopy(r)

Next == \E r \in Calls : Step(r)

Spec == Init /\ [][Next]_vars

\* the runs without environment fault in which rank 0 supplies 1 .. MaxTensors
\* copies of [4,5,6]; every rank's thread keeps running while it has a step
\* to take
LiveInit ==
  /\ Init
  /\ fault = NoFault
  /\ \A k \in 1 .. num_tensors(0) : inputs[0][k] = <<4, 5, 6>>

LiveSpec == LiveInit /\ [][Next]_vars /\ \A r \in Ranks : WF_vars(Step(r))

\* ------------------------------------------------------------- the graphs
\* build_allreduce_graph: the flat graph is one NcclAllReduce node over the
\* world; the hierarchical graph is a NcclAllReduce node over the node-local
\* group followed by AdasumAllReduce; the other graphs are AdasumAllReduce
\* alone, which the operator tests also run with reduce_algo None
Graphs ==
  { [op |-> "NcclAllReduce", algo |-> "None"] }
    \cup { [op |-> "AdasumAllReduce", algo |-> a] : a \in AdasumReductionTypes }

\* mutant: the flat graph is built with the AdasumAllReduce node
FirstNodeAdasum(ctx) ==
  IF ctx.algo = "GpuHierarchical" THEN "AllReduce" ELSE "Pack"

\* where a call starts: in the collective when the graph begins with a
\* NcclAllReduce node, in the kernel otherwise
FirstNode(ctx) ==
  IF ctx.op = "NcclAllReduce" \/ ctx.algo = "GpuHierarchical"
  THEN "AllReduce"
  ELSE "Pack"

\* the group a NcclAllReduce node reduces over: the world for the flat graph
\* (group_type 0), the ranks of one node for level 1 of the hierarchical one
\* (group_type 2)
GroupSize(ctx) ==
  IF ctx.op = "NcclAllReduce" THEN ctx.world_size ELSE ctx.local_size

Group(r) ==
  { s \in Calls : s \div GroupSize(context) = r \div GroupSize(context) }

\* tensor i of every member of rank r's group of `size` ranks, in rank order
GroupTensors(ts, size, r, i) ==
  LET lo == (r \div size) * size
  IN  [j \in 1 .. size |-> ts[lo + j - 1][i]]

\* the NcclAllReduce node of the group whose first rank is r: a collective,
\* which every member enters and leaves with the element-wise sum.  In the
\* flat graph the sums are the outputs of the run; in the hierarchical graph
\* they are the inputs of AdasumAllReduce
NcclAllReduce(r) ==
  /\ \A s \in Group(r) : r <= s /\ kernel[s].pc = "AllReduce"
  /\ LET sum(i) ==
           SumTensors(GroupTensors(inputs, GroupSize(context), r, i))
     IN  IF context.op = "NcclAllReduce"
         THEN /\ kernel' = [s \in Calls |->
                   IF s \notin Group(r) THEN kernel[s]
                   ELSE Return(
                          [kernel[s] EXCEPT !.outputs =
                             [i \in 1 .. num_tensors(s) |->
                                [created |-> TRUE,
                                 shape |-> TensorShape(sum(i)),
                                 written |-> TRUE,
                                 data |-> Cells(sum(i))]]],
                          "OK")]
              /\ inputs' = inputs
         ELSE /\ kernel' = [s \in Calls |->
                   IF s \notin Group(r) THEN kernel[s]
                   ELSE [kernel[s] EXCEPT !.pc = "Pack"]]
              /\ inputs' = [s \in Calls |->
                   IF s \notin Group(r) THEN inputs[s]
                   ELSE [i \in 1 .. num_tensors(s) |-> sum(i)]]
  /\ UNCHANGED <<context, feeds, fault, heap, net, hist>>

\* gradients with a zero vector among them
EdgePool == { <<0, 0, 0>>, <<4, 5, 6>>, <<7, 8, 9>> }

GraphFeeds == UNION { [1 .. n -> EdgePool] : n \in 1 .. 2 }

GraphContexts ==
  { [ world_size |-> WorldSize, local_size |-> k, runs |-> 1,
      op |-> g.op, algo |-> g.algo ] : k \in 1 .. WorldSize, g \in Graphs }

\* the two-rank world running any of the graphs on one or two tensors per
\* rank, without environment fault
GraphInit ==
  /\ context \in GraphContexts
  /\ \E a \in GraphFeeds, b \in GraphFeeds :
       /\ Len(a) = Len(b)
       /\ feeds = [r \in Ranks |-> IF r = 0 THEN a ELSE b]
  /\ inputs = feeds
  /\ fault = NoFault
  /\ heap \in Garbage
  /\ kernel = [r \in Ranks |->
       [InitKernel(inputs[r]) EXCEPT !.pc = FirstNode(context)]]
  /\ net = [r \in Ranks |-> <<>>]
  /\ hist = [r \in Ranks |-> InitHist]

GraphNext == Next \/ \E r \in Calls : NcclAllReduce(r)

GraphSpec == GraphInit /\ [][GraphNext]_vars

\* ------------------------------------------------ the reducer on a world
\* the gradients of up to eight ranks
Gradients ==
  << <<1, 0>>, <<1, 1>>, <<0, 1>>, <<1, 2>>,
     <<2, 1>>, <<0, 2>>, <<1, 0>>, <<2, 2>> >>

Worlds == { w \in 1 .. MaxWorld : Pow2(Log2(w)) = w }

\* worlds of nodes of local_size ranks running AdasumAllReduce, flat or
\* hierarchical, whose reduction stays within MaxExchanges exchanges
WorldContexts ==
  { c \in [ world_size : Worlds, local_size : Worlds, runs : {1},
            op : {"AdasumAllReduce"},
            algo : {"CpuReduction", "GpuHierarchical"} ] :
      /\ c.local_size <= c.world_size
      /\ c.world_size
           * NumLevels(c.world_size, StartLevel(c.algo, c.local_size))
           <= MaxExchanges }

\* lines 43-47 as a whole: every input copied to its offset
RECURSIVE StageLoop(_, _, _, _)
StageLoop(ts, i, offsets, buf) ==
  IF i > Len(ts) THEN buf
  ELSE StageLoop(ts, i + 1, offsets, WriteAt(buf, offsets[i], Cells(ts[i])))

\* a call that has run lines 13-50 without fault and is about to call the
\* reducer
Staged(ts, ctx, fill) ==
  LET st == PackLoop(ts, 1, EmptyTable)
      fresh == [j \in 1 .. (st.total_recv_buffer_len \div ElemSize) |-> fill]
  IN  [ InitKernel(ts) EXCEPT
          !.pc = "Dispatch",
          !.vhdd_start_level = StartLevel(ctx.algo, ctx.local_size),
          !.tensor_offsets = st.tensor_offsets,
          !.tensor_sizes = st.tensor_sizes,
          !.tensor_element_counts = st.tensor_element_counts,
          !.total_recv_buffer_len = st.total_recv_buffer_len,
          !.data_buffer = StageLoop(ts, 1, st.tensor_offsets, fresh),
          !.data_buffer_ptr = "owned",
          !.recv_buffer = fresh,
          !.recv_buffer_ptr = "owned" ]

StagedHist(ts) ==
  [ InitHist EXCEPT !.staged = Len(ts), !.dataAllocated = TRUE,
                    !.recvAllocated = TRUE ]

\* every rank of the world has staged its tensor, the node sum of its
\* gradient in the hierarchical graph, and is about to call the reducer; no
\* environment fault
WorldInit ==
  /\ context \in WorldContexts
  /\ \E s \in 0 .. 2 :
       feeds = [r \in 0 .. (context.world_size - 1) |->
                 << Gradients[((r + s) % Len(Gradients)) + 1] >>]
  /\ inputs =
       IF context.algo = "GpuHierarchical"
       THEN [r \in DOMAIN feeds |->
              [i \in 1 .. Len(feeds[r]) |->
                 SumTensors(GroupTensors(feeds, context.local_size, r, i))]]
       ELSE feeds
  /\ fault = NoFault
  /\ heap \in Garbage
  /\ kernel = [r \in DOMAIN feeds |-> Staged(inputs[r], context, heap)]
  /\ net = [r \in DOMAIN feeds |-> <<>>]
  /\ hist = [r \in DOMAIN feeds |-> StagedHist(inputs[r])]

ReduceStep(r) ==
  \/ Dispatch(r)
  \/ ReducerRecvCounts(r)
  \/ ReducerSendData(r)
  \/ ReducerRecvData(r)
  \/ ScatterCopy(r)

WorldNext == \E r \in Calls : ReduceStep(r)

WorldSpec == WorldInit /\ [][WorldNext]_vars

\* the worlds whose reduction has an exchange to wait for
WorldLiveInit ==
  /\ WorldInit
  /\ NumLevels(context.world_size,
               StartLevel(context.algo, context.local_size)) > 0

\* while some rank has a step to take, some rank takes a step: less than
\* every rank's thread running on, which the scheduler gives
WorldLiveSpec == WorldLiveInit /\ [][WorldNext]_vars /\ WF_vars(WorldNext)

\* ------------------------------------------- concurrent calls on a rank
\* the kernel's Compute is const and a session may be run from several
\* threads: two calls on each rank of the two-rank world, call r and call
\* r + 2 on rank r, each pair of calls with its own matching tensors; no
\* environment fault
RunsContext == [TestContext EXCEPT !.runs = 2]

RunsInit ==
  /\ context = RunsContext
  /\ \E a \in Pool, b \in Pool :
       feeds = [r \in 0 .. 3 |->
                 LET t == IF r \div WorldSize = 0 THEN a ELSE b
                 IN  << IF r % WorldSize = 0 THEN t ELSE Mirror(t) >>]
  /\ inputs = feeds
  /\ fault = NoFault
  /\ heap \in Garbage
  /\ kernel = [r \in DOMAIN feeds |-> InitKernel(inputs[r])]
  /\ net = [r \in Ranks |-> <<>>]
  /\ hist = [r \in DOMAIN feeds |-> InitHist]

RunsSpec == RunsInit /\ [][Next]_vars

\* --------------------------------------------------- tensors of any size
\* the two-rank world fed with tensors of zero to three elements, the same
\* shapes on both ranks; no environment fault
ShapePool == { <<>>, <<1>>, <<2, 3>>, <<4, 5, 6>> }

ShapeLists == UNION { [1 .. n -> ShapePool] : n \in 1 .. MaxTensors }

ShapesInit ==
  /\ context = TestContext
  /\ \E ts \in ShapeLists : feeds = [r \in Ranks |-> ts]
  /\ inputs = feeds
  /\ fault = NoFault
  /\ heap \in Garbage
  /\ kernel = [r \in Ranks |-> InitKernel(inputs[r])]
  /\ net = [r \in Ranks |-> <<>>]
  /\ hist = [r \in Ranks |-> InitHist]

ShapesSpec == ShapesInit /\ [][Next]_vars

\* ------------------------------------------------ tensors of 64-bit size
\* Tensors too large to list cell by cell are known by their shape size
\* alone.  A 64-bit number is <<hi, lo>> for hi * 2^31 + lo, 0 <= lo < 2^31.
Int32Max == 2147483647

Wide(n) == <<0, n>>

WAdd(a, b) ==
  IF a[2] > Int32Max - b[2]
  THEN <<a[1] + b[1] + 1, (a[2] - (Int32Max - b[2])) - 1>>
  ELSE <<a[1] + b[1], a[2] + b[2]>>

RECURSIVE WMul(_, _)
WMul(a, n) == IF n = 0 THEN Wide(0) ELSE WAdd(a, WMul(a, n - 1))

RECURSIVE WSum(_)
WSum(s) == IF Len(s) = 0 THEN Wide(0) ELSE WAdd(Head(s), WSum(Tail(s)))

\* (int) of an int64_t (line 34): the low 32 bits, read as two's complement
ToInt(w) == IF w[1] % 2 = 0 THEN w[2] ELSE (w[2] - Int32Max) - 1

\* shape sizes: 3, 2^31 - 1, 2^31, 2^31 + 1, 2^32, 2^32 + 5 elements
WideSizes == { <<0, 3>>, <<0, Int32Max>>, <<1, 0>>, <<1, 1>>, <<2, 0>>, <<2, 5>> }

WideLists == UNION { [1 .. n -> WideSizes] : n \in 1 .. MaxTensors }

\* inputs[r][i] is the shape size of input i of call r
WideInit ==
  /\ context = TestContext
  /\ \E ts \in WideLists : feeds = [r \in Ranks |-> ts]
  /\ inputs = feeds
  /\ fault = NoFault
  /\ heap = Zero
  /\ kernel = [r \in Ranks |->
       [ pc |-> "Pack", i |-> 1, size_in_bytes |-> Wide(0),
         tensor_offsets |-> <<>>, tensor_sizes |-> <<>>,
         tensor_element_counts |-> <<>>, total_recv_buffer_len |-> Wide(0) ]]
  /\ net = [r \in Ranks |-> <<>>]
  /\ hist = [r \in Ranks |-> InitHist]

\* lines 26-35, one pass of the loop, in 64-bit arithmetic
PackPass(r) ==
  /\ kernel[r].pc = "Pack"
  /\ LET k == kernel[r]
         size_in_bytes == WMul(inputs[r][k.i], ElemSize)
     IN  kernel' = [kernel EXCEPT ![r] =
           [ pc |-> IF k.i < num_tensors(r) THEN "Pack" ELSE "AllocData",
             i |-> k.i + 1,
             tensor_offsets |-> Append(k.tensor_offsets, k.size_in_bytes),
             size_in_bytes |-> size_in_bytes,
             total_recv_buffer_len |->
               WAdd(k.total_recv_buffer_len, size_in_bytes),
             tensor_sizes |-> Append(k.tensor_sizes, size_in_bytes),
             tensor_element_counts |->
               Append(k.tensor_element_counts, ToInt(inputs[r][k.i])) ]]
  /\ UNCHANGED <<context, feeds, inputs, fault, heap, net, hist>>

WideNext == \E r \in Calls : PackPass(r)

WideSpec == WideInit /\ [][WideNext]_vars

\* ================================================================ claims
Done(r) == kernel[r].pc = "Done"
Succeeded(r) == Done(r) /\ kernel[r].status = "OK"
AllSucceeded == \A r \in Ranks : Succeeded(r)
FaultFree == fault.kind = "none"
Shape(r) == [k \in 1 .. num_tensors(r) |-> Len(inputs[r][k])]
Matched == Shape(0) = Shape(1)
MismatchErrors == { "TensorCountMismatch", "ElementCountMismatch" }

\* sum of x[j] * y[j] over integer vectors
RECURSIVE IDot(_, _)
IDot(x, y) == IF Len(x) = 0 THEN 0 ELSE Head(x) * Head(y) + IDot(Tail(x), Tail(y))

\* (1 - (a.b)/(2|a|^2)) a + (1 - (a.b)/(2|b|^2)) b over one denominator, and
\* a + b when a norm is zero
Adasum(a, b) ==
  LET d == IDot(a, b)
      na == IDot(a, a)
      nb == IDot(b, b)
  IN  [j \in 1 .. Len(a) |->
         IF na = 0 \/ nb = 0 THEN <<a[j] + b[j], 1>>
         ELSE Rat((2 * na * nb - d * nb) * a[j] + (2 * na * nb - d * na) * b[j],
                  2 * na * nb)]

\* q is within 1e-4 of e / 10000
Near(q, e) == Abs(q[1] * 10000 - e * q[2]) <= q[2]
NearAll(v, es) ==
  Len(v) = Len(es) /\ \A j \in 1 .. Len(es) : Near(v[j], es[j])

\* C1: world size 2, N >= 1 fused tensors of any sizes: after a successful
\* call without environment fault, output i on both ranks is the Adasum
\* combination of the two ranks' input tensors i alone.
C1_PerTensorIndependent ==
  (FaultFree /\ AllSucceeded) =>
    \A r \in Ranks : \A i \in 1 .. num_tensors(r) :
      kernel[r].outputs[i].data = Adasum(inputs[0][i], inputs[1][i])

\* the partial sums of the tensor sizes; PrefixSum(sizes, i) is the sum of
\* sizes[1 .. i-1]
PrefixSum(sizes, i) == SumSeq(SubSeq(sizes, 1, i - 1))

\* C2: the packed buffer's size is the sum of the per-tensor byte sizes and
\* the recorded offset of tensor i is the sum of the byte sizes of the
\* tensors before it, for every number of tensors.
C2_OffsetsTileBuffer ==
  \A r \in Ranks : (FaultFree /\ kernel[r].pc # "Pack") =>
    /\ kernel[r].total_recv_buffer_len = SumSeq(kernel[r].tensor_sizes)
    /\ \A i \in 1 .. num_tensors(r) :
         /\ kernel[r].tensor_sizes[i] = SizeInBytes(inputs[r][i])
         /\ kernel[r].tensor_offsets[i] = PrefixSum(kernel[r].tensor_sizes, i)

\* C3: world size 2, one input vector a on rank 0 and b on rank 1, no
\* environment fault: both ranks end with
\* (1 - (a.b)/(2|a|^2)) a + (1 - (a.b)/(2|b|^2)) b, which for [4,5,6] and
\* [7,8,9] is [5.6301, 6.5235, 7.4169] and for [4,5,6,7] and [8,9,10,11] is
\* [6.2643, 7.1228, 7.9812, 8.8397] to 1e-4.
C3_AdasumOfTwoVectors ==
  (FaultFree /\ AllSucceeded /\ num_tensors(0) = 1) =>
    \A r \in Ranks :
      LET a == inputs[0][1]
          b == inputs[1][1]
          out == kernel[r].outputs[1].data
      IN  /\ out = Adasum(a, b)
          /\ (a = <<4, 5, 6>> /\ b = <<7, 8, 9>>) =>
               NearAll(out, <<56301, 65235, 74169>>)
          /\ (a = <<4, 5, 6, 7>> /\ b = <<8, 9, 10, 11>>) =>
               NearAll(out, <<62643, 71228, 79812, 88397>>)

C3_Witness ==
  /\ FaultFree /\ AllSucceeded /\ num_tensors(0) = 1
  /\ inputs[0][1] = <<4, 5, 6, 7>>
  /\ NearAll(kernel[1].outputs[1].data, <<62643, 71228, 79812, 88397>>)

AllMismatchFailed ==
  \A r \in Ranks : Done(r) /\ kernel[r].status \in MismatchErrors

\* C4: when the ranks supply different numbers of tensors or different
\* per-tensor element counts (and the environment does not fail), every
\* rank's call eventually returns, and returns TensorCountMismatch or
\* ElementCountMismatch: no rank stays blocked in a send or receive.
C4_MismatchFailsEverywhere == (~Matched /\ FaultFree) ~> AllMismatchFailed

C4_Witness == ~Matched /\ FaultFree /\ AllMismatchFailed

\* C5: a call that fails on a tensor-count or element-count mismatch has
\* issued no message and has not entered the reducer: the mismatch is found
\* by a local check before any network operation.
C5_MismatchFailsBeforeNetwork ==
  \A r \in Ranks : (FaultFree /\ kernel[r].status \in MismatchErrors) =>
    hist[r].sent = 0 /\ hist[r].reducer = "NotCalled"

NoOutput(r) == \A i \in 1 .. num_tensors(r) : kernel[r].outputs[i] = NotCreated

\* C6: when the reducer returns an error the kernel returns that error and
\* has created or written no output tensor; no failed call has an output.
C6_ReducerErrorNoOutput ==
  \A r \in Ranks :
    /\ hist[r].reducer = "Error" =>
         /\ Done(r)
         /\ kernel[r].status = hist[r].reducerStatus
         /\ kernel[r].status # "OK"
         /\ hist[r].scattered = 0
         /\ NoOutput(r)
    /\ (Done(r) /\ kernel[r].status # "OK") => NoOutput(r)

C6_Witness ==
  \E r \in Ranks :
    /\ hist[r].reducer = "Error"
    /\ kernel[r].status = "CommunicationFailure"
    /\ kernel[Partner(r)].pc = "AwaitData"

\* C7: a call in which a device-to-host or host-to-device copy failed
\* returns a device-copy error, never Status::OK, and a failed staging copy
\* keeps the reducer from being started.
C7_CopyFailureFailsCall ==
  \A r \in Ranks :
    /\ (hist[r].copyFailed /\ Done(r)) => kernel[r].status = "DeviceCopyError"
    /\ hist[r].stageFailed => hist[r].reducer = "NotCalled"

Phase(pc) ==
  CASE pc \in { "Pack", "AllocData", "Stage", "AllocRecv" } -> 1
    [] pc \in { "Dispatch", "AwaitCounts", "SendData", "AwaitData" } -> 2
    [] pc = "Scatter" -> 3
    [] OTHER -> 4

C9_Order ==
  \A r \in Ranks :
    /\ hist[r].reducer # "NotCalled" => hist[r].staged = num_tensors(r)
    /\ Phase(kernel[r].pc) \in { 2, 3 } => hist[r].staged = num_tensors(r)
    /\ hist[r].scattered > 0 => hist[r].reducer = "OK"
    /\ Phase(kernel[r].pc) = 3 => hist[r].reducer = "OK"
    /\ Succeeded(r) =>
         hist[r].scattered = num_tensors(r) /\ hist[r].reducer = "OK"
    /\ (Done(r) /\ kernel[r].status # "OK") => hist[r].scattered = 0

C9_Steps ==
  \A r \in Ranks :
    /\ Phase(kernel'[r].pc) \in
         { Phase(kernel[r].pc), Phase(kernel[r].pc) + 1, 4 }
    /\ (Phase(kernel'[r].pc) = 4 /\ Phase(kernel[r].pc) < 3) =>
         kernel'[r].status # "OK"
    /\ Done(r) => (kernel'[r] = kernel[r] /\ hist'[r] = hist[r])

\* C9: every invocation goes Staged -> Reduced -> Scattered or ends in
\* Failed: all staging copies are done before the reducer is invoked, a
\* scatter copy happens only after the reducer returned OK, the call returns
\* OK only after the last scatter copy, and a returned call does nothing more.
C9_StateOrder == []C9_Order /\ [][C9_Steps]_vars

C9_Witness ==
  /\ AllSucceeded /\ num_tensors(0) >= 2
  /\ \A r \in Ranks : hist[r].scattered = num_tensors(r)

Swapped ==
  /\ num_tensors(0) = 2 /\ num_tensors(1) = 2
  /\ inputs[0][1] = inputs[1][2] /\ inputs[0][2] = inputs[1][1]

\* C10: Adasum is symmetric: rank 0, which combines its a with the received
\* b, and rank 1, which combines its b with the received a, end with the same
\* vector; and when tensor 1 is (a on rank 0, b on rank 1) and tensor 2 is
\* (b on rank 0, a on rank 1), outputs 1 and 2 are the same vector.
C10_Symmetric ==
  (FaultFree /\ AllSucceeded) =>
    /\ \A i \in 1 .. num_tensors(0) :
         /\ kernel[0].outputs[i].written /\ kernel[1].outputs[i].written
         /\ kernel[0].outputs[i].data = kernel[1].outputs[i].data
    /\ Swapped =>
         \A r \in Ranks : kernel[r].outputs[1].data = kernel[r].outputs[2].data

C10_Witness ==
  /\ FaultFree /\ AllSucceeded /\ Swapped
  /\ inputs[0] = << <<4, 5, 6>>, <<7, 8, 9>> >>
  /\ NearAll(kernel[0].outputs[1].data, <<56301, 65235, 74169>>)
  /\ NearAll(kernel[1].outputs[2].data, <<56301, 65235, 74169>>)

\* C14: a call that returns OK has one output per input, in the inputs'
\* order, and output i has the shape of input i and, once written, as many
\* bytes as input i.
C14_OutputPerInput ==
  \A r \in Ranks : Succeeded(r) =>
    /\ DOMAIN kernel[r].outputs = 1 .. num_tensors(r)
    /\ \A i \in 1 .. num_tensors(r) :
         LET y == kernel[r].outputs[i]
         IN  /\ y.created
             /\ y.shape = TensorShape(inputs[r][i])
             /\ y.written => Len(y.data) * ElemSize = SizeInBytes(inputs[r][i])

C14_Witness ==
  /\ Succeeded(0)
  /\ inputs[0] = << <<4, 5, 6>>, <<4, 5, 6, 7>>, <<7, 8, 9>> >>
  /\ \A i \in 1 .. 3 : kernel[0].outputs[i].written
  /\ kernel[0].outputs[2].shape = <<4>>

C20_Once ==
  \A r \in Ranks :
    /\ hist[r].calls <= 1
    /\ hist[r].reducer # "NotCalled" => hist[r].calls = 1
    /\ Succeeded(r) => hist[r].calls = 1
    /\ hist[r].reducerStatus = "CommunicationFailure" =>
         /\ Done(r)
         /\ kernel[r].status = "CommunicationFailure"
         /\ hist[r].scattered = 0

C20_NoMore ==
  \A r \in Ranks :
    hist[r].reducerStatus = "CommunicationFailure" =>
      /\ hist'[r].calls = hist[r].calls
      /\ hist'[r].sent = hist[r].sent
      /\ Len(net'[Partner(r)]) <= Len(net[Partner(r)])

\* C20: a call invokes the reducer at most once, and exactly once when it
\* reaches the reducer or returns OK; when the reducer reports a
\* communication failure the call returns that error, and from then on it
\* neither calls the reducer again nor sends a message.
C20_ReducerCalledOnce == []C20_Once /\ [][C20_NoMore]_vars

C20_Witness ==
  \E r \in Ranks :
    /\ Done(r) /\ kernel[r].status = "CommunicationFailure"
    /\ hist[r].calls = 1 /\ hist[r].sent = 1
    /\ kernel[Partner(r)].pc = "AwaitData"

ISum(a, b) == [j \in 1 .. Len(a) |-> a[j] + b[j]]
FlatGraph == context.op = "NcclAllReduce"

Slice(buf, counts, i) ==
  SubSeq(buf, PrefixSum(counts, i) + 1, PrefixSum(counts, i) + counts[i])

ZeroNorm(v) == \A j \in 1 .. Len(v) : v[j] = Zero
CellSum(a, b) == [j \in 1 .. Len(a) |-> RAdd(a[j], b[j])]

C16_Step ==
  \A r \in Ranks :
    (kernel[r].pc = "AwaitData" /\ hist'[r].levels = hist[r].levels + 1) =>
      \A i \in 1 .. Len(kernel[r].tensor_element_counts) :
        LET counts == kernel[r].tensor_element_counts
            a == Slice(kernel[r].data_buffer, counts, i)
            b == Slice(kernel'[r].recv_buffer, counts, i)
        IN  (ZeroNorm(a) \/ ZeroNorm(b)) =>
              Slice(kernel'[r].data_buffer, counts, i) = CellSum(a, b)

\* C16: every pairwise combination of the reducer in which the local or the
\* received vector of a tensor is all zero (squared norm exactly zero)
\* leaves the element-wise sum of the two vectors for that tensor.
C16_ZeroNormIsSum == [][C16_Step]_vars

C16_Witness ==
  /\ AllSucceeded /\ context.op = "AdasumAllReduce"
  /\ context.algo = "CpuReduction"
  /\ feeds[0] = << <<0, 0, 0>>, <<4, 5, 6>> >>
  /\ feeds[1] = << <<7, 8, 9>>, <<7, 8, 9>> >>
  /\ \A r \in Ranks :
       /\ kernel[r].outputs[1].data = Cells(<<7, 8, 9>>)
       /\ NearAll(kernel[r].outputs[2].data, <<56301, 65235, 74169>>)

\* C17: once the kernel has computed it, the start level is the node-local
\* group size when the algorithm is GpuHierarchical and 1 for every other
\* algorithm, whatever the inputs of the call; the reducer's first message
\* is sent at that level.
C17_StartLevel ==
  LET level == IF context.algo = "GpuHierarchical"
               THEN context.local_size ELSE 1
  IN  /\ \A r \in Ranks :
           kernel[r].pc \notin { "AllReduce", "Pack" } /\ ~FlatGraph =>
             kernel[r].vhdd_start_level = level
      /\ \A k \in Ranks : \A j \in 1 .. Len(net[k]) :
           net[k][j].kind = "counts" => net[k][j].level = level

C17_Witness ==
  /\ context.algo = "GpuHierarchical" /\ context.local_size = 2
  /\ AllSucceeded
  /\ \A r \in Ranks : kernel[r].vhdd_start_level = 2 /\ hist[r].calls = 1

WorldSucceeded == \A r \in Calls : Succeeded(r)
Hierarchical == context.algo = "GpuHierarchical"

\* the participants of the reduction rank r takes part in, lowest first: the
\* ranks that differ from r in the bits of the levels that run
Participants(r) ==
  LET p == EffectiveParticipants(context.world_size, kernel[r].vhdd_start_level)
      stride == Pow2(kernel[r].vhdd_start_level - 1)
  IN  IF p <= 1 THEN <<r>> ELSE [j \in 1 .. p |-> (r % stride) + (j - 1) * stride]

\* the vectors vs combined pairwise, level by level: the two halves are
\* combined first, then their results
RECURSIVE Combined(_)
Combined(vs) ==
  IF Len(vs) = 1 THEN Head(vs)
  ELSE LET h == Len(vs) \div 2
       IN  AdasumCombine(Combined(SubSeq(vs, 1, h)),
                         Combined(SubSeq(vs, h + 1, Len(vs))))

\* C11: when the reducer has returned on a rank, the rank has run
\* log2(P) exchange levels for P effective participants, has sent one
\* message per level after the handshake and none after the last level,
\* and its output is the level-by-level combination of the P participants'
\* inputs, the same vector on every participant.
C11_AllHoldCombined ==
  \A r \in Calls : Succeeded(r) =>
    LET ps == Participants(r)
        n == Log2(Len(ps))
    IN  /\ hist[r].levels = n
        /\ hist[r].sent = IF n = 0 THEN 0 ELSE n + 1
        /\ kernel[r].outputs[1].data =
             Combined([j \in 1 .. Len(ps) |-> Cells(inputs[ps[j]][1])])
        /\ \A j \in 1 .. Len(ps) :
             Succeeded(ps[j]) =>
               kernel[ps[j]].outputs[1].data = kernel[r].outputs[1].data

C11_Witness ==
  /\ WorldSucceeded
  /\ context.world_size = 4 /\ context.algo = "CpuReduction"
  /\ \A r \in Calls :
       /\ hist[r].levels = 2
       /\ kernel[r].outputs[1].data = kernel[0].outputs[1].data
       /\ kernel[r].outputs[1].data # Cells(inputs[r][1])

NodeOf(r) == r \div context.local_size

\* C18: in hierarchical mode the start level is the node-local group size
\* k, the effective participant count world_size / 2^(start_level-1) is the
\* number of nodes W / k, the reducer runs log2(W / k) exchange levels, and
\* every message goes to a rank of another node.
C18_ParticipantsAreNodes ==
  Hierarchical =>
    LET nodes == context.world_size \div context.local_size
    IN  /\ \A r \in Calls : hist[r].reducer = "OK" =>
             /\ kernel[r].vhdd_start_level = context.local_size
             /\ EffectiveParticipants(context.world_size,
                                      kernel[r].vhdd_start_level) = nodes
             /\ hist[r].levels = Log2(nodes)
        /\ \A d \in Calls : \A j \in 1 .. Len(net[d]) :
             NodeOf(net[d][j].from) # NodeOf(d)

\* the sum of the feeds of the ranks of one node
NodeSum(node) ==
  SumTensors(GroupTensors(feeds, context.local_size,
                          node * context.local_size, 1))

\* C12: in hierarchical mode with node-local group size k every rank ends
\* with the Adasum combination, across the nodes, of the element-wise sums
\* of each node's k inputs; with a single node that is the plain sum.
C12_SumThenAdasum ==
  (Hierarchical /\ WorldSucceeded) =>
    LET nodes == context.world_size \div context.local_size
        sums == [n \in 1 .. nodes |-> Cells(NodeSum(n - 1))]
    IN  \A r \in Calls : kernel[r].outputs[1].data = Combined(sums)

C19_Pairing ==
  /\ \A r \in Calls : \A l \in 1 .. LastLevel(context.world_size) :
       /\ Neighbor(r, l) \in Calls
       /\ Neighbor(r, l) # r
       /\ Neighbor(Neighbor(r, l), l) = r
  /\ \A d \in Calls : \A j \in 1 .. Len(net[d]) :
       /\ Neighbor(d, net[d][j].level) = net[d][j].from
       /\ kernel[d].pc # "Done"
  /\ \A r \in Calls : Done(r) => kernel[r].status = "OK"

C19_Matched ==
  \A r \in Calls :
    hist'[r].levels = hist[r].levels + 1 =>
      /\ Received(r).kind = "data"
      /\ Received(r).level = kernel[r].level
      /\ Received(r).from = Neighbor(r, kernel[r].level)
      /\ kernel[Received(r).from].level >= kernel[r].level

\* C19: with matching counts on a power-of-two world and a transport that
\* delivers, the partner relation of every level is symmetric and without
\* self-partner, every message is received by the partner it was sent to
\* at the level it was sent at and none is left over, and every call
\* eventually returns OK after its scatter: no rank waits for ever.
C19_NoDeadlock ==
  /\ []C19_Pairing
  /\ [][C19_Matched]_vars
  /\ <>(WorldSucceeded /\ \A k \in Calls : net[k] = <<>>)

C19_Witness ==
  /\ WorldSucceeded
  /\ context.world_size = 4 /\ context.algo = "GpuHierarchical"
  /\ context.local_size = 1
  /\ \A r \in Calls :
       hist[r].levels = 2 /\ hist[r].sent = 3 /\ hist[r].scattered = 1
  /\ \A k \in Calls : net[k] = <<>>

\* the communicator and tag of the messages of call r
Channel(r) ==
  LET m == Msg("counts", r, 0, <<>>, <<>>)
  IN  <<m.comm, m.tag>>

InFlight(r) == hist[r].reducer = "Running"

\* C13: two calls of the same rank pair that are in the reducer at the
\* same time differ in communicator or tag, and no call receives a message
\* that another call than its partner call sent.
C13_CallsDoNotInterleave ==
  /\ \A r \in Calls : \A s \in Calls :
       (r # s /\ RankOf(r) = RankOf(s) /\ InFlight(r) /\ InFlight(s)) =>
         Channel(r) # Channel(s)
  /\ \A r \in Calls : ~hist[r].foreign

\* the frees of call r's two host buffers so far
Frees(r) == <<kernel[r].data_frees, kernel[r].recv_frees>>

C21_Freed ==
  \A r \in Calls :
    /\ ~Done(r) => Frees(r) = <<0, 0>>
    /\ Done(r) =>
         Frees(r) = << IF hist[r].dataAllocated THEN 1 ELSE 0,
                       IF hist[r].recvAllocated THEN 1 ELSE 0 >>

C21_Use ==
  \A r \in Calls :
    ( \/ kernel'[r].data_buffer # kernel[r].data_buffer
      \/ kernel'[r].recv_buffer # kernel[r].recv_buffer
      \/ hist'[r].staged # hist[r].staged
      \/ hist'[r].sent # hist[r].sent
      \/ hist'[r].scattered # hist[r].scattered ) =>
        /\ Frees(r) = <<0, 0>>
        /\ kernel'[r].data_buffer_ptr = "owned"
        /\ (hist'[r].sent # hist[r].sent \/ hist'[r].scattered # hist[r].scattered)
             => kernel[r].recv_buffer_ptr = "owned"

\* C21: a call that has returned, with OK or with any error, has freed each
\* host buffer it allocated exactly once and no buffer it did not allocate;
\* a call that has not returned has freed nothing, and every step that
\* stages into, sends from, receives into or scatters from a buffer is
\* taken while the call owns the buffer and before any free.
C21_BuffersFreedOnce == []C21_Freed /\ [][C21_Use]_vars

C21_Witness ==
  \E r \in Calls :
    /\ Done(r) /\ kernel[r].status = "AllocationError"
    /\ hist[r].dataAllocated /\ ~hist[r].recvAllocated
    /\ Frees(r) = <<1, 0>>
    /\ \E s \in Calls :
         /\ kernel[s].pc # "Done"
         /\ hist[s].recvAllocated /\ Frees(s) = <<0, 0>>

\* the bytes of the staging buffer call r allocated
BufferLen(r) == Len(kernel[r].data_buffer) * ElemSize

\* C22: from the allocation of the staging buffer on, for every tensor i of
\* the call, of any size and zero included, the range the staging copy
\* writes and the scatter copy reads starts at or after byte 0 and ends at
\* or before the end of the allocated buffer.
C22_CopiesInBounds ==
  \A r \in Calls :
    kernel[r].pc \in { "Stage", "AllocRecv", "Dispatch", "Scatter" } =>
      /\ Len(kernel[r].tensor_offsets) = num_tensors(r)
      /\ \A i \in 1 .. num_tensors(r) :
           /\ 0 <= kernel[r].tensor_offsets[i]
           /\ kernel[r].tensor_offsets[i] + kernel[r].tensor_sizes[i]
                <= BufferLen(r)
           /\ kernel[r].tensor_sizes[i] = SizeInBytes(inputs[r][i])

C22_Witness ==
  \E r \in Calls :
    /\ kernel[r].pc = "Scatter" /\ kernel[r].i = 3
    /\ inputs[r][2] = <<>> /\ inputs[r][3] # <<>> /\ inputs[r][1] # <<>>
    /\ kernel[r].tensor_offsets[3] + kernel[r].tensor_sizes[3] < BufferLen(r)

\* the byte sizes the element counts handed to the reducer stand for
CountBytes(counts) ==
  [i \in 1 .. Len(counts) |-> WMul(Wide(counts[i]), ElemSize)]

\* C23: every element count the loop has recorded for the reducer is the
\* tensor's shape size, also for a tensor of 2^31 elements or more, and when
\* the loop is over the counts times the element width sum to the buffer
\* length.
C23_CountsAreTrue ==
  \A r \in Calls :
    /\ \A i \in 1 .. Len(kernel[r].tensor_element_counts) :
         /\ kernel[r].tensor_element_counts[i] >= 0
         /\ Wide(kernel[r].tensor_element_counts[i]) = inputs[r][i]
    /\ kernel[r].pc = "AllocData" =>
         WSum(CountBytes(kernel[r].tensor_element_counts))
           = kernel[r].total_recv_buffer_len

====
